---------------------------- MODULE Spec2Model ----------------------------
(***************************************************************************)
(* Model of the Hadith Shorts generator (src/App.tsx and its services).    *)
(*                                                                         *)
(* The App component owns the React state (hadith, backgroundVideo,        *)
(* finalVideoUrl, settings, genState).  Its handlers are asynchronous:     *)
(* every piece of code between two awaits, every timer callback and every  *)
(* recorder callback runs to completion on the single JavaScript thread,   *)
(* so each of them is one atomic action here.  Calls in flight are kept    *)
(* in two tables: fetches (calls of fetchHadith, including their pending   *)
(* retry timer) and sessions (calls of generateFullVideo, including the    *)
(* MediaRecorder, its chunk list and its progress interval).  A button is  *)
(* clicked only when the last render left it enabled, and React renders    *)
(* the state written by a handler before the next user event is handled.   *)
(* Locals of a call that the code no longer reads (elapsed and durationMs  *)
(* once the interval is cleared, everything once the call has ended) are   *)
(* reset, and the blob built in onstop is kept in finalVideoUrl itself.    *)
(*                                                                         *)
(* Platform contract assumed for MediaRecorder: the stop event follows a   *)
(* call of stop(): stop() queues one task that fires a last dataavailable   *)
(* event and then the stop event; dataavailable may also fire while         *)
(* recording.  MediaRecorder.isTypeSupported is a capability of the         *)
(* platform and does not change during a run.  Durations are kept as frame  *)
(* counts, so that the comparison with the elapsed time is exact integer    *)
(* arithmetic.                                                              *)
(*                                                                         *)
(* Besides the App (Spec, LiveSpec, and TeardownSpec with the unmount),    *)
(* the module has the draw loop of the VideoPreview component              *)
(* (PreviewSpec), the part of generateFullVideo after the narration on     *)
(* every platform (NegotiateSpec), and the functions decodeRawPcm          *)
(* (DecodeSpec) and wrapText (WrapSpec) applied to bounded sets of inputs. *)
(***************************************************************************)
EXTENDS Integers, Naturals, Sequences, FiniteSets, TLC

\* ------------------------------------------------------------- bounds ---
MaxClicks   == 3   \* user actions (category, Shuffle, Produce Short) in a run
MaxSegments == 1   \* dataavailable events per recorder before the flush
MaxHandles  == 4   \* animation frames requested by the preview in a run
MaxBytes    == 6   \* length of a narration payload given to decodeRawPcm
MaxTextLen  == 5   \* characters of a text given to wrapText
MaxWidth    == 4   \* largest maxWidth given to wrapText
MaxChars    == 900 \* largest length of the translation given to the font ladder
MaxDim      == 16  \* largest width and height of a background video

\* ---------------------------------------------------- program constants ---
SampleRate       == 24000
NumChannels      == 1
PollIntervalMs   == 100
ProgressBase     == 40
ProgressSpan     == 60
ProgressCap      == 99
SampleScale      == 32768
ReadyThreshold   == 2
CanvasWidth      == 1080
CanvasHeight     == 1920

\* Ordered preference list of container types.
MimeTypes == << "video/webm;codecs=vp9,opus", "video/webm", "video/mp4" >>

Categories == {"random", "patience"}

\* Platforms the model is run on: one that supports no container type of
\* the list and one that supports all but the first.
Platforms == { {}, {"video/webm", "video/mp4"} }

\* Byte lengths of the narration payloads the provider may return: an odd
\* length, 100 ms of audio and 150 ms of audio (not a multiple of the poll
\* interval).
AudioLens == {1, 4800, 7200}

\* Every user action may call fetchHadith, after the call made on mount.
\* Produce Short is enabled only in status idle, which a call of
\* generateFullVideo leaves at once and only a fetch restores: k calls of
\* generateFullVideo take k clicks on Produce Short and k - 1 fetches.
FetchIds   == 1..(MaxClicks + 1)
SessionIds == 1..((MaxClicks + 1) \div 2)

NoUrl == [session |-> 0, chunks |-> << >>, type |-> ""]

VARIABLES
  phase,            \* "constructed" before the mount effect, then "mounted",
                    \* "unmounted" once the component is torn down
  supportedTypes,   \* the types MediaRecorder.isTypeSupported accepts
  hadith,           \* "null" or the category whose fetch delivered it
  backgroundVideo,  \* "null", "" or the category whose search delivered it
  finalVideoUrl,    \* NoUrl or the blob the URL points to: [session, chunks, type]
  settings,         \* [category]
  genState,         \* [status, progress, message]
  fetches,          \* fetchHadith calls: [pc, cat]
  sessions          \* generateFullVideo calls

\* The preview component (VideoPreview) and the functions of the program
\* that are studied on their own have their state apart from the App's.
VARIABLES
  preview,          \* the VideoPreview component: props, refs, last frame drawn
  callbacks,        \* animation-frame callbacks requested and not yet run
  input,            \* arguments of the function under study
  output            \* its result

appVars == << phase, supportedTypes, hadith, backgroundVideo, finalVideoUrl, settings, genState,
              fetches, sessions >>

previewVars == << preview, callbacks >>

callVars == << input, output >>

otherVars == << previewVars, callVars >>

vars == << appVars, previewVars, callVars >>

Statuses == {"idle", "fetching_hadith", "generating_tts", "generating_video",
             "complete", "error"}

GenerationState(st, pr, msg) == [status |-> st, progress |-> pr, message |-> msg]

NoFetch == [pc |-> "none", cat |-> "random"]

NoSession == [pc |-> "none", frames |-> 0, elapsed |-> 0, rstate |-> "inactive",
              chunks |-> << >>, emitted |-> 0, sizes |-> << >>, mime |-> "",
              prior |-> NoUrl]

\* A field that the content record does not have (undefined in the code).
Missing == "undefined"

\* hadith === null
Null == [null |-> TRUE]

\* Content records: what the hadith API mapping builds (all fields
\* strings, arabic possibly empty) and what the fallback parses from the
\* reply of the model, which may lack any field.
Contents ==
  [arabic : {Missing, "", "text"}, english : {Missing, "", "text"},
   source : {Missing, "text"}, grade : {Missing, "text"}]

\* The props of VideoPreview that its effect depends on.  videoUrl is
\* backgroundVideo || undefined.
Props ==
  [hadith : {Null} \cup Contents, includeArabic : BOOLEAN,
   videoUrl : {Missing, "url"}, isGenerating : BOOLEAN]

\* The props of the first render of App.
InitialProps ==
  [hadith |-> Null, includeArabic |-> TRUE, videoUrl |-> Missing, isGenerating |-> FALSE]

\* HTMLMediaElement.readyState: HAVE_NOTHING, HAVE_CURRENT_DATA, HAVE_ENOUGH_DATA
ReadyStates == {0, 2, 4}

NoFrame == [background |-> "none", text |-> FALSE, raised |-> FALSE]

NoPreview ==
  [phase |-> "absent", props |-> InitialProps, readyState |-> 0,
   requestRef |-> 0, nextHandle |-> 1, drawn |-> NoFrame]

NoCall == [fn |-> "none"]

NoResult == [kind |-> "none"]

Min(a, b) == IF a < b THEN a ELSE b

Range(q) == {q[i] : i \in 1..Len(q)}

\* ------------------------------------------------------------- helpers ---

\* decodeRawPcm: the Int16Array view needs an even byte length and
\* createBuffer needs at least one frame.
FrameCount(len, numChannels) == (len \div 2) \div numChannels

DecodeOk(len, numChannels) ==
  /\ len % 2 = 0
  /\ numChannels > 0
  /\ FrameCount(len, numChannels) > 0

\* First entry of the preference list that the platform supports, "" if none.
RECURSIVE FindFrom(_, _)
FindFrom(i, supported) ==
  IF i > Len(MimeTypes) THEN ""
  ELSE IF MimeTypes[i] \in supported THEN MimeTypes[i]
  ELSE FindFrom(i + 1, supported)

\* Variant that picks the last supported entry of the list.
PickLastMimeType(supported) ==
  LET S == {i \in 1..Len(MimeTypes) : MimeTypes[i] \in supported}
  IN  IF S = {} THEN "" ELSE MimeTypes[CHOOSE i \in S : \A j \in S : j <= i]

PickMimeType(supported) == FindFrom(1, supported)

\* Variant that reports the duration as reached one poll interval early.
DurationReachedEarly(elapsed, frames) ==
  (elapsed + PollIntervalMs) * SampleRate >= frames * 1000

\* elapsed >= durationMs, with durationMs = frames / SampleRate * 1000.
DurationReached(elapsed, frames) == elapsed * SampleRate >= frames * 1000

\* Variant without the cap.
ProgressUncapped(elapsed, frames) ==
  ProgressBase + ((elapsed * ProgressSpan * SampleRate) \div (frames * 1000))

\* Math.floor(Math.min(40 + (elapsed / durationMs) * 60, 99))
ProgressAt(elapsed, frames) ==
  Min(ProgressBase + ((elapsed * ProgressSpan * SampleRate) \div (frames * 1000)),
      ProgressCap)

\* Variant with the test of the recorder state inverted.
ShouldStopInverted(rstate) == rstate = "inactive"

\* recorder.state !== 'inactive'
ShouldStop(rstate) == rstate # "inactive"

\* The data of the k-th dataavailable event of the recorder of call s.
Segment(s, k) == [session |-> s, seq |-> k]

\* Variant that keeps empty segments too.
PushAll(chunks, seg, size) == Append(chunks, seg)

\* chunks.push(e.data) when e.data.size > 0
PushChunk(chunks, seg, size) == IF size > 0 THEN Append(chunks, seg) ELSE chunks

\* disabled={!hadith || genState.status !== 'idle'}
ProduceEnabled == hadith # "null" /\ genState.status = "idle"

\* disabled={genState.status === 'fetching_hadith'}
ShuffleEnabled == genState.status # "fetching_hadith"

FreeFetch == {f \in FetchIds : fetches[f].pc = "none"}
FreeSession == {s \in SessionIds : sessions[s].pc = "none"}
NextFree(S) == CHOOSE x \in S : \A y \in S : x <= y

\* Number of user actions so far (every call but the one made on mount).
Clicks ==
  Cardinality(FetchIds \ FreeFetch) + Cardinality(SessionIds \ FreeSession)
    - (IF phase # "constructed" THEN 1 ELSE 0)

\* The state setters of the component.  React drops an update of the
\* state of a component that is no longer mounted.
Mounted == phase # "unmounted"

setHadith(v) == hadith' = IF Mounted THEN v ELSE hadith

setBackgroundVideo(v) == backgroundVideo' = IF Mounted THEN v ELSE backgroundVideo

setFinalVideoUrl(v) == finalVideoUrl' = IF Mounted THEN v ELSE finalVideoUrl

setGenState(v) == genState' = IF Mounted THEN v ELSE genState

\* ---------------------------------------------------------------- Init ---
\* Nothing of the preview or of a function under study is running.
PreviewAbsent == preview = NoPreview /\ callbacks = {}

NoCallPending == input = NoCall /\ output = NoResult

\* The state of the App after construction.
AppConstructed ==
  /\ phase = "constructed"
  /\ hadith = "null"
  /\ backgroundVideo = "null"
  /\ finalVideoUrl = NoUrl
  /\ settings = [category |-> "random"]
  /\ genState = GenerationState("idle", 0, "")
  /\ fetches = [f \in FetchIds |-> NoFetch]
  /\ sessions = [s \in SessionIds |-> NoSession]

Init ==
  /\ supportedTypes \in Platforms
  /\ AppConstructed
  /\ PreviewAbsent
  /\ NoCallPending

\* ---------------------------------------------------------- fetchHadith ---

\* Variant of fetchHadith that clears the URL and leaves the status.
fetchHadithKeepStatus(catId) ==
  /\ FreeFetch # {}
  /\ fetches' = [fetches EXCEPT ![NextFree(FreeFetch)] = [pc |-> "hadith", cat |-> catId]]
  /\ UNCHANGED genState
  /\ setFinalVideoUrl(NoUrl)

\* Synchronous part of fetchHadith(catId), up to the first await.
fetchHadith(catId) ==
  /\ FreeFetch # {}
  /\ fetches' = [fetches EXCEPT ![NextFree(FreeFetch)] = [pc |-> "hadith", cat |-> catId]]
  /\ setGenState(GenerationState("fetching_hadith", 10, "Discovering"))
  /\ setFinalVideoUrl(NoUrl)

\* useEffect(() => fetchHadith('random'), [])
InitialLoad ==
  /\ phase = "constructed"
  /\ phase' = "mounted"
  /\ fetchHadith("random")
  /\ UNCHANGED << otherVars, supportedTypes, hadith, backgroundVideo, settings, sessions >>

handleCategoryChange(catId) ==
  /\ phase = "mounted"
  /\ Clicks < MaxClicks
  /\ settings' = [settings EXCEPT !.category = catId]
  /\ fetchHadith(catId)
  /\ UNCHANGED << otherVars, phase, supportedTypes, hadith, backgroundVideo, sessions >>

\* The Shuffle button: fetchHadith() with the current category.
Shuffle ==
  /\ phase = "mounted"
  /\ Clicks < MaxClicks
  /\ ShuffleEnabled
  /\ fetchHadith(settings.category)
  /\ UNCHANGED << otherVars, phase, supportedTypes, hadith, backgroundVideo, settings, sessions >>

\* getRandomAuthenticHadith resolved: setHadith(data), then await the video.
HadithResolved(f) ==
  /\ fetches[f].pc = "hadith"
  /\ setHadith(fetches[f].cat)
  /\ fetches' = [fetches EXCEPT ![f].pc = "video"]
  /\ UNCHANGED << otherVars, phase, supportedTypes, backgroundVideo, finalVideoUrl, settings, genState, sessions >>

\* getRandomAuthenticHadith rejected: the catch block arms the retry timer.
HadithRejected(f) ==
  /\ fetches[f].pc = "hadith"
  /\ setGenState(GenerationState("error", 0, "Source unavailable"))
  /\ fetches' = [fetches EXCEPT ![f].pc = "timer"]
  /\ UNCHANGED << otherVars, phase, supportedTypes, hadith, backgroundVideo, finalVideoUrl, settings, sessions >>

\* getPexelsVideo never rejects: it resolves to a link or to "".
VideoResolved(f, found) ==
  /\ fetches[f].pc = "video"
  /\ setBackgroundVideo(IF found THEN fetches[f].cat ELSE "")
  /\ setGenState(GenerationState("idle", 0, ""))
  /\ fetches' = [fetches EXCEPT ![f] = [NoFetch EXCEPT !.pc = "done"]]
  /\ UNCHANGED << otherVars, phase, supportedTypes, hadith, finalVideoUrl, settings, sessions >>

\* setTimeout(() => fetchHadith(catId), 2000) fires: the new call takes the
\* place of the failed one.
RetryTimer(f) ==
  /\ fetches[f].pc = "timer"
  /\ fetches' = [fetches EXCEPT ![f].pc = "hadith"]
  /\ setGenState(GenerationState("fetching_hadith", 10, "Discovering"))
  /\ setFinalVideoUrl(NoUrl)
  /\ UNCHANGED << otherVars, phase, supportedTypes, hadith, backgroundVideo, settings, sessions >>

\* ----------------------------------------------------- generateFullVideo ---

\* The Produce Short button.  Synchronous part of generateFullVideo up to
\* the await of the narration: the entry guard, then both state updates.
\* prior remembers the URL that was exposed when the call was made.
generateFullVideo ==
  /\ phase = "mounted"
  /\ Clicks < MaxClicks
  /\ ProduceEnabled
  /\ hadith # "null"
  /\ FreeSession # {}
  /\ sessions' = [sessions EXCEPT ![NextFree(FreeSession)] =
                    [NoSession EXCEPT !.pc = "tts", !.prior = finalVideoUrl]]
  /\ setGenState(GenerationState("generating_tts", 10, "Narrating"))
  /\ setFinalVideoUrl(NoUrl)
  /\ UNCHANGED << otherVars, phase, supportedTypes, hadith, backgroundVideo, settings, fetches >>

\* The catch block of generateFullVideo.  The locals of the call are dead.
RecordingError(s) ==
  /\ sessions' = [sessions EXCEPT ![s] = [NoSession EXCEPT !.pc = "failed"]]
  /\ setGenState(GenerationState("error", 0, "Error"))
  /\ UNCHANGED finalVideoUrl

\* generateVoiceover rejected (no payload in the reply).
VoiceoverRejected(s) ==
  /\ sessions[s].pc = "tts"
  /\ RecordingError(s)
  /\ UNCHANGED << otherVars, phase, supportedTypes, hadith, backgroundVideo, settings, fetches >>

\* Variant that starts the recorder without announcing the capture phase.
StartRecorderStale(s, len, mimeType) ==
  /\ sessions' = [sessions EXCEPT ![s] =
                    [NoSession EXCEPT !.pc = "recording",
                                      !.frames = FrameCount(len, NumChannels),
                                      !.rstate = "recording",
                                      !.mime = mimeType]]
  /\ setGenState([genState EXCEPT !.progress = ProgressBase])
  /\ UNCHANGED finalVideoUrl

\* recorder.start() and the arming of the progress interval.
StartRecorder(s, len, mimeType) ==
  /\ sessions' = [sessions EXCEPT ![s] =
                    [NoSession EXCEPT !.pc = "recording",
                                      !.frames = FrameCount(len, NumChannels),
                                      !.elapsed = 0,
                                      !.rstate = "recording",
                                      !.mime = mimeType]]
  /\ setGenState(GenerationState("generating_video", ProgressBase, "Crafting"))
  /\ UNCHANGED finalVideoUrl

\* generateVoiceover resolved with len bytes.  Everything from the decode
\* to the end of the try block runs without yielding to another handler:
\* decode, canvas lookup, format negotiation, recorder start.  The ref of
\* the preview is null once the component is unmounted.
VoiceoverResolved(s, len, canvas) ==
  /\ sessions[s].pc = "tts"
  /\ IF /\ DecodeOk(len, NumChannels)
        /\ canvas /\ Mounted
        /\ PickMimeType(supportedTypes) # ""
     THEN StartRecorder(s, len, PickMimeType(supportedTypes))
     ELSE RecordingError(s)
  /\ UNCHANGED << otherVars, phase, supportedTypes, hadith, backgroundVideo, settings, fetches >>

\* One firing of progressInterval.  When the duration is reached the
\* interval is cleared (elapsed and durationMs are dead from then on) and
\* the recorder is asked to stop.
Tick(s) ==
  /\ sessions[s].pc = "recording"
  /\ LET e == sessions[s].elapsed + PollIntervalMs
         due == DurationReached(e, sessions[s].frames)
         stop == due /\ ShouldStop(sessions[s].rstate)
     IN  /\ sessions' = [sessions EXCEPT ![s] =
                           [@ EXCEPT !.elapsed = IF due THEN 0 ELSE e,
                                     !.frames = IF due THEN 0 ELSE @,
                                     !.pc = IF stop THEN "stopping"
                                            ELSE IF due THEN "stalled" ELSE @,
                                     !.rstate = IF stop THEN "inactive" ELSE @]]
         /\ setGenState([genState EXCEPT !.progress = ProgressAt(e, sessions[s].frames)])
  /\ UNCHANGED << otherVars, phase, supportedTypes, hadith, backgroundVideo, finalVideoUrl, settings, fetches >>

\* recorder.ondataavailable while recording.  sizes is the recorder's own
\* record of what it has emitted.
DataAvailable(s, size) ==
  /\ sessions[s].pc = "recording"
  /\ sessions[s].emitted < MaxSegments
  /\ sessions' = [sessions EXCEPT ![s] =
                    [@ EXCEPT !.emitted = @ + 1,
                              !.sizes = Append(@, size),
                              !.chunks = PushChunk(@, Segment(s, sessions[s].emitted + 1), size)]]
  /\ UNCHANGED << otherVars, phase, supportedTypes, hadith, backgroundVideo, finalVideoUrl, settings, genState, fetches >>

\* new Blob(chunks, { type: mimeType })
Blob(s, chunks) == [session |-> s, chunks |-> chunks, type |-> sessions[s].mime]

\* The task queued by recorder.stop(): the last dataavailable event, then
\* onstop, which exposes the blob of this call's chunks.
RecorderStopped(s, size) ==
  /\ sessions[s].pc = "stopping"
  /\ sessions' = [sessions EXCEPT ![s] = [NoSession EXCEPT !.pc = "complete"]]
  /\ setFinalVideoUrl(Blob(s, PushChunk(sessions[s].chunks,
                                        Segment(s, sessions[s].emitted + 1), size)))
  /\ setGenState(GenerationState("complete", 100, "Complete"))
  /\ UNCHANGED << otherVars, phase, supportedTypes, hadith, backgroundVideo, settings, fetches >>

\* ----------------------------------------------------------------- Next ---
Next ==
  \/ InitialLoad
  \/ \E c \in Categories : handleCategoryChange(c)
  \/ Shuffle
  \/ \E f \in FetchIds : HadithResolved(f)
  \/ \E f \in FetchIds : HadithRejected(f)
  \/ \E f \in FetchIds, found \in BOOLEAN : VideoResolved(f, found)
  \/ \E f \in FetchIds : RetryTimer(f)
  \/ generateFullVideo
  \/ \E s \in SessionIds : VoiceoverRejected(s)
  \/ \E s \in SessionIds, len \in AudioLens, canvas \in BOOLEAN :
        VoiceoverResolved(s, len, canvas)
  \/ \E s \in SessionIds : Tick(s)
  \/ \E s \in SessionIds, size \in 0..1 : DataAvailable(s, size)
  \/ \E s \in SessionIds, size \in 0..1 : RecorderStopped(s, size)

Spec == Init /\ [][Next]_vars

\* Fairness: an armed interval keeps firing and a queued recorder task is
\* run.  User actions and network replies are not assumed to happen.
Fairness ==
  \A s \in SessionIds :
    /\ WF_vars(Tick(s))
    /\ WF_vars(\E size \in 0..1 : RecorderStopped(s, size))

LiveSpec == Init /\ [][Next]_vars /\ Fairness

\* ------------------------------------------------------------- teardown ---

\* The component is unmounted.  No effect of App returns a cleanup and
\* nothing of generateFullVideo or fetchHadith is kept in a ref that an
\* unmount could reach: the interval, the retry timer, the recorder and
\* its tracks are left as they are.
Unmount ==
  /\ phase = "mounted"
  /\ phase' = "unmounted"
  /\ UNCHANGED << otherVars, supportedTypes, hadith, backgroundVideo, finalVideoUrl, settings, genState,
                  fetches, sessions >>

NextOrUnmount == Next \/ Unmount

\* The component over its whole life, teardown included.
TeardownSpec == Init /\ [][NextOrUnmount]_vars

\* ---------------------------------------------------- format negotiation ---
\* The part of generateFullVideo after the narration, on every platform.

\* Container types a platform may report as supported: those of the
\* preference list and some that are not on it.
PlatformTypes ==
  Range(MimeTypes) \cup {"video/webm;codecs=vp8,opus", "video/x-matroska", "audio/webm"}

\* The App after the first content has loaded and Produce Short was
\* clicked: call 1 of generateFullVideo awaits the narration.
AwaitingVoiceover ==
  /\ phase = "mounted"
  /\ hadith = "random"
  /\ backgroundVideo = "random"
  /\ finalVideoUrl = NoUrl
  /\ settings = [category |-> "random"]
  /\ genState = GenerationState("generating_tts", 10, "Narrating")
  /\ fetches = [f \in FetchIds |-> IF f = 1 THEN [NoFetch EXCEPT !.pc = "done"] ELSE NoFetch]
  /\ sessions = [s \in SessionIds |-> IF s = 1 THEN [NoSession EXCEPT !.pc = "tts"]
                                       ELSE NoSession]

InitNegotiate ==
  /\ supportedTypes \in SUBSET PlatformTypes
  /\ AwaitingVoiceover
  /\ PreviewAbsent
  /\ NoCallPending

NextNegotiate ==
  \E len \in AudioLens, canvas \in BOOLEAN : VoiceoverResolved(1, len, canvas)

NegotiateSpec == InitNegotiate /\ [][NextNegotiate]_vars

\* ---------------------------------------------------------- decodeRawPcm ---
\* decodeRawPcm on its own and at its call in generateFullVideo.  The
\* bytes are those of a fresh Uint8Array, which spans its whole buffer.
\* A sample x / 32768 is kept as the fraction [num |-> x, den |-> 32768]
\* (exact in a Float32Array for every 16-bit x).

ByteValues == {0, 127, 128, 255}

ChannelCounts == -1..3

ByteSeqs(n) == UNION {[1..k -> ByteValues] : k \in 0..n}

DecodeFailure(name) == [kind |-> "error", name |-> name]

\* Variant that reads the 16 bits as an unsigned number.
ToUint16(u) == u

\* The signed value of 16 bits.
ToInt16(u) == IF u >= 32768 THEN u - 65536 ELSE u

\* new Int16Array(buffer): the elements, little-endian, indexed from 0.
Int16Array(data) ==
  [k \in 0..((Len(data) \div 2) - 1) |-> ToInt16(data[2 * k + 1] + 256 * data[2 * k + 2])]

\* The number createBuffer receives for frameCount = length / numChannels:
\* the conversion to unsigned long drops the fraction and maps Infinity
\* and NaN (numChannels = 0) to 0.
ToLength(n, numChannels) == IF numChannels > 0 THEN n \div numChannels ELSE 0

\* Everything after the Int16Array view: createBuffer, which rejects a
\* channel count that is 0 or (converted to unsigned long) above the
\* supported maximum and a length of 0, then the two loops.  The inner
\* loop runs while i < length / numChannels, so with a partial last frame
\* it runs once more than the buffer is long; a write beyond the end of
\* a Float32Array is dropped, and a read beyond the end of the
\* Int16Array gives undefined (NaN after the division).
FillBuffer(dataInt16, n, numChannels) ==
  LET length == ToLength(n, numChannels)
  IN  IF numChannels <= 0 \/ length = 0 THEN DecodeFailure("NotSupportedError")
      ELSE [kind |-> "buffer",
            numberOfChannels |-> numChannels,
            length |-> length,
            channels |->
              [channel \in 0..(numChannels - 1) |->
                 [i \in 0..(length - 1) |->
                    IF i * numChannels < n
                    THEN IF i * numChannels + channel < n
                         THEN [num |-> dataInt16[i * numChannels + channel],
                               den |-> SampleScale]
                         ELSE [num |-> "NaN", den |-> SampleScale]
                    ELSE [num |-> 0, den |-> 1]]]]

\* Variant that does not reject an odd byte length.
decodeRawPcmLenient(data, numChannels) ==
  FillBuffer(Int16Array(data), Len(data) \div 2, numChannels)

\* decodeRawPcm(data, ctx, sampleRate, numChannels).  The Int16Array
\* constructor throws a RangeError when the byte length is odd.
decodeRawPcm(data, numChannels) ==
  IF Len(data) % 2 # 0 THEN DecodeFailure("RangeError")
  ELSE FillBuffer(Int16Array(data), Len(data) \div 2, numChannels)

InitDecode ==
  /\ input \in [fn : {"decodeRawPcm"}, data : ByteSeqs(MaxBytes), numChannels : ChannelCounts]
  /\ output = NoResult
  /\ supportedTypes = Range(MimeTypes)
  /\ AwaitingVoiceover
  /\ PreviewAbsent

\* The function applied to the input.
Decode ==
  /\ output = NoResult
  /\ output' = decodeRawPcm(input.data, input.numChannels)
  /\ UNCHANGED << appVars, previewVars, input >>

\* The call of line 105, with one channel, and what generateFullVideo does
\* with its outcome.
AfterDecode ==
  /\ output # NoResult
  /\ input.numChannels = NumChannels
  /\ VoiceoverResolved(1, Len(input.data), TRUE)

NextDecode == Decode \/ AfterDecode

DecodeSpec == InitDecode /\ [][NextDecode]_vars

\* -------------------------------------------------------------- wrapText ---
\* wrapText on its own.  A string is a sequence of characters; the canvas
\* context is given by its metrics, the advance width of each character,
\* and measureText(s).width is the sum of the advances of s.

Chars == {" ", "a", "M"}

Texts(n) == UNION {[1..k -> Chars] : k \in 0..n}

Metrics == [Chars -> 0..2]

RECURSIVE measureText(_, _)
measureText(metrics, s) ==
  IF s = << >> THEN 0 ELSE metrics[Head(s)] + measureText(metrics, Tail(s))

\* text.split(' '): the pieces between the spaces, empty pieces included.
RECURSIVE SplitFrom(_, _, _, _)
SplitFrom(text, i, word, words) ==
  IF i > Len(text) THEN Append(words, word)
  ELSE IF text[i] = " " THEN SplitFrom(text, i + 1, << >>, Append(words, word))
  ELSE SplitFrom(text, i + 1, Append(word, text[i]), words)

\* Variant of the split that collapses runs of spaces (no empty pieces).
splitCollapsing(text) ==
  LET words == SelectSeq(SplitFrom(text, 1, << >>, << >>), LAMBDA w : w # << >>)
  IN  IF words = << >> THEN << << >> >> ELSE words

split(text) == SplitFrom(text, 1, << >>, << >>)

\* Variant of the test that lets every word join the line.
FitsAlways(metrics, line, maxWidth) == TRUE

\* width < maxWidth
Fits(metrics, line, maxWidth) == measureText(metrics, line) < maxWidth

\* Variant of push that drops the line.
pushNothing(lines, line) == lines

\* lines.push(currentLine)
push(lines, line) == Append(lines, line)

\* The loop of wrapText from word i on, and the push after it.
RECURSIVE WrapFrom(_, _, _, _, _, _)
WrapFrom(metrics, words, i, currentLine, lines, maxWidth) ==
  IF i > Len(words) THEN push(lines, currentLine)
  ELSE IF Fits(metrics, currentLine \o << " " >> \o words[i], maxWidth)
       THEN WrapFrom(metrics, words, i + 1, currentLine \o << " " >> \o words[i],
                     lines, maxWidth)
       ELSE WrapFrom(metrics, words, i + 1, words[i], push(lines, currentLine), maxWidth)

wrapText(metrics, text, maxWidth) ==
  LET words == split(text)
  IN  WrapFrom(metrics, words, 2, words[1], << >>, maxWidth)

InitWrap ==
  /\ input \in [fn : {"wrapText"}, text : Texts(MaxTextLen), maxWidth : 0..MaxWidth,
                 metrics : Metrics]
  /\ output = NoResult
  /\ supportedTypes = Range(MimeTypes)
  /\ AppConstructed
  /\ PreviewAbsent

\* The function applied to the input.
Wrap ==
  /\ output = NoResult
  /\ output' = [kind |-> "lines",
                lines |-> wrapText(input.metrics, input.text, input.maxWidth)]
  /\ UNCHANGED << appVars, previewVars, input >>

NextWrap == Wrap

WrapSpec == InitWrap /\ [][NextWrap]_vars

\* ------------------------------------------------------------ font sizes ---
\* The dynamic font sizing of render on its own.  A content record is
\* given by the lengths of its two texts.

\* Lengths of the Arabic text: none, one character, a long text.
ArabicLengths == {0, 1, 400}

\* Variant whose upper boundary is inclusive.
BaseSizesInclusive(totalCharCount) ==
  IF totalCharCount >= 800 THEN [baseArabicSize |-> 42, baseEnglishSize |-> 32]
  ELSE IF totalCharCount > 500 THEN [baseArabicSize |-> 52, baseEnglishSize |-> 40]
  ELSE [baseArabicSize |-> 64, baseEnglishSize |-> 48]

\* The two sizes chosen for a total character count.
BaseSizes(totalCharCount) ==
  IF totalCharCount > 800 THEN [baseArabicSize |-> 42, baseEnglishSize |-> 32]
  ELSE IF totalCharCount > 500 THEN [baseArabicSize |-> 52, baseEnglishSize |-> 40]
  ELSE [baseArabicSize |-> 64, baseEnglishSize |-> 48]

\* totalCharCount = hadith.arabic.length + hadith.english.length; the
\* setting includeArabic is not read here.
fontSizes(arabicLength, englishLength) == BaseSizes(arabicLength + englishLength)

InitFont ==
  /\ input \in [fn : {"fontSizes"}, arabicLength : ArabicLengths,
                 englishLength : 0..MaxChars, includeArabic : BOOLEAN]
  /\ output = NoResult
  /\ supportedTypes = Range(MimeTypes)
  /\ AppConstructed
  /\ PreviewAbsent

\* The sizes computed for the input.
SizeFonts ==
  /\ output = NoResult
  /\ output' = [kind |-> "fonts",
                sizes |-> fontSizes(input.arabicLength, input.englishLength)]
  /\ UNCHANGED << appVars, previewVars, input >>

NextFont == SizeFonts

FontSpec == InitFont /\ [][NextFont]_vars

\* ------------------------------------------------------------- cover-fit ---
\* The rectangle render draws the background video into, on its own.
\* Quotients are kept as fractions [num, den] with den > 0, not reduced.

Frac(n, d) == [num |-> n, den |-> d]

\* Variant with the comparison of the aspect ratios reversed.
NarrowerThanCanvas(videoWidth, videoHeight, W, H) == videoWidth * H < W * videoHeight

\* videoAspect > canvasAspect, for positive sizes.
WiderThanCanvas(videoWidth, videoHeight, W, H) == videoWidth * H > W * videoHeight

\* drawW, drawH, drawX, drawY for a video of the given size on a W x H canvas.
coverFit(videoWidth, videoHeight, W, H) ==
  IF WiderThanCanvas(videoWidth, videoHeight, W, H)
  THEN [drawH |-> Frac(H, 1),
        drawW |-> Frac(H * videoWidth, videoHeight),
        drawX |-> Frac(W * videoHeight - H * videoWidth, 2 * videoHeight),
        drawY |-> Frac(0, 1)]
  ELSE [drawW |-> Frac(W, 1),
        drawH |-> Frac(W * videoHeight, videoWidth),
        drawX |-> Frac(0, 1),
        drawY |-> Frac(H * videoWidth - W * videoHeight, 2 * videoWidth)]

InitCover ==
  /\ input \in [fn : {"coverFit"}, videoWidth : 1..MaxDim, videoHeight : 1..MaxDim]
  /\ output = NoResult
  /\ supportedTypes = Range(MimeTypes)
  /\ AppConstructed
  /\ PreviewAbsent

\* The rectangle computed for the input on the canvas of the preview.
FitCover ==
  /\ output = NoResult
  /\ output' = [kind |-> "rect",
                rect |-> coverFit(input.videoWidth, input.videoHeight,
                                  CanvasWidth, CanvasHeight)]
  /\ UNCHANGED << appVars, previewVars, input >>

NextCover == FitCover

CoverSpec == InitCover /\ [][NextCover]_vars

\* --------------------------------------------------------- VideoPreview ---
\* The effect of VideoPreview and its draw loop.  The canvas and the video
\* element exist whenever the effect runs (their refs are set before the
\* effects of a commit) and the 2d context is available.  The props change
\* as the App re-renders; here they may change to any value at any time.

\* One execution of render with the values its closure captured: which
\* background is drawn, whether the text lines are drawn, and whether a
\* TypeError is raised (a property of undefined is read: arabic.length,
\* english.length, source.toUpperCase(), grade.toUpperCase()).
render(h, includeArabic, videoUrl, readyState) ==
  [background |-> IF videoUrl # Missing /\ readyState >= ReadyThreshold
                  THEN "video" ELSE "gradient",
   text       |-> h # Null /\ h.arabic # Missing /\ h.english # Missing,
   raised     |-> h # Null /\ Missing \in {h.arabic, h.english, h.source, h.grade}]

\* Variant of cancelAnimationFrame that cancels nothing.
CancelNothing(pending, handle) == pending

\* cancelAnimationFrame(handle)
cancelAnimationFrame(pending, handle) == {f \in pending : f.handle # handle}

\* The effect body for props p, run when pending callbacks remain
\* requested: render() once, which on its last line requests the next
\* frame and stores the handle in requestRef.  An error raised by the
\* effect makes React unmount the tree.
Effect(p, pending) ==
  LET r == render(p.hadith, p.includeArabic, p.videoUrl, preview.readyState)
      h == preview.nextHandle
  IN  /\ callbacks' = IF r.raised THEN pending
                      ELSE pending \cup {[handle |-> h, props |-> p]}
      /\ preview' = [preview EXCEPT !.phase = IF r.raised THEN "crashed" ELSE "mounted",
                                    !.props = p,
                                    !.drawn = r,
                                    !.requestRef = IF r.raised THEN @ ELSE h,
                                    !.nextHandle = IF r.raised THEN @ ELSE h + 1]

\* First commit of the App: the preview is mounted with the initial props.
MountPreview ==
  /\ preview.phase = "absent"
  /\ Effect(InitialProps, callbacks)
  /\ UNCHANGED << appVars, callVars >>

\* A dependency of the effect changed: the cleanup of the last run, then
\* the effect again.  A new content object or settings object is a change
\* even when it is equal to the last one.
PropsChange(p) ==
  /\ preview.phase = "mounted"
  /\ preview.nextHandle <= MaxHandles
  /\ Effect(p, cancelAnimationFrame(callbacks, preview.requestRef))
  /\ UNCHANGED << appVars, callVars >>

\* The display refreshes: a requested callback runs render with the props
\* its closure captured.  An error raised here is not seen by React.
AnimationFrame(f) ==
  /\ f \in callbacks
  /\ preview.nextHandle <= MaxHandles
  /\ LET r == render(f.props.hadith, f.props.includeArabic, f.props.videoUrl,
                     preview.readyState)
         h == preview.nextHandle
     IN  /\ callbacks' = IF r.raised THEN callbacks \ {f}
                         ELSE (callbacks \ {f}) \cup {[handle |-> h, props |-> f.props]}
         /\ preview' = [preview EXCEPT !.drawn = r,
                                       !.requestRef = IF r.raised THEN @ ELSE h,
                                       !.nextHandle = IF r.raised THEN @ ELSE h + 1]
  /\ UNCHANGED << appVars, callVars >>

\* The background video loads, stalls or is replaced.
ReadyStateChange(r) ==
  /\ preview.phase = "mounted"
  /\ r # preview.readyState
  /\ preview' = [preview EXCEPT !.readyState = r]
  /\ UNCHANGED << appVars, callbacks, callVars >>

\* The preview is unmounted: the cleanup of the last run of the effect.
UnmountPreview ==
  /\ preview.phase = "mounted"
  /\ callbacks' = IF preview.requestRef # 0
                  THEN cancelAnimationFrame(callbacks, preview.requestRef)
                  ELSE callbacks
  /\ preview' = [preview EXCEPT !.phase = "unmounted"]
  /\ UNCHANGED << appVars, callVars >>

NextPreview ==
  \/ MountPreview
  \/ \E p \in Props : PropsChange(p)
  \/ \E f \in callbacks : AnimationFrame(f)
  \/ \E r \in ReadyStates : ReadyStateChange(r)
  \/ UnmountPreview

PreviewSpec == Init /\ [][NextPreview]_vars

\* ============================================================== claims ===

\* A recorder that was started and whose stop callback has not fired.
ActiveRecorders == {s \in SessionIds : sessions[s].pc \in {"recording", "stopping", "stalled"}}

\* A call of generateFullVideo that has neither completed nor failed.
InFlight(s) == sessions[s].pc \in {"tts", "recording", "stopping", "stalled"}

\* Position of a status on the path idle -> generating_tts ->
\* generating_video -> complete | error.
Rank(status) ==
  CASE status = "generating_tts" -> 1
    [] status = "generating_video" -> 2
    [] status \in {"complete", "error"} -> 3
    [] OTHER -> 0

\* The step is a user action (category, Shuffle or Produce Short).
UserStep == Clicks' > Clicks

\* The call s of generateFullVideo fails in this step.
FailsNow(s) == sessions[s].pc = "tts" /\ sessions'[s].pc = "failed"

\* C1: at most one recording session (a started recorder whose stop
\* callback has not fired) is active at any time.
C1_AtMostOneRecording == Cardinality(ActiveRecorders) <= 1

\* C2: a call of generateFullVideo made while a session is capturing fails
\* at once and leaves the status, the progress, the exposed artifact and
\* the capturing session as they were.
C2_SecondCallRejected ==
  [][\A s \in SessionIds :
       ( /\ sessions[s].pc = "none"
         /\ sessions'[s].pc # "none"
         /\ \E t \in SessionIds : sessions[t].pc = "recording" )
       => /\ sessions'[s].pc = "failed"
          /\ genState' = genState
          /\ finalVideoUrl' = finalVideoUrl
          /\ \A t \in SessionIds \ {s} : sessions'[t] = sessions[t]]_vars

\* C3: while a call of generateFullVideo is in flight the status never
\* moves to an earlier position of idle -> generating_tts ->
\* generating_video -> complete | error.
C3_StatusForward ==
  [][(\E s \in SessionIds : InFlight(s))
       => Rank(genState'.status) >= Rank(genState.status)]_vars

\* C4: the recorder is asked to stop only by a tick of a started recorder
\* at which the elapsed time has reached the audio duration, and the
\* artifact is exposed and the status set to complete only by the stop
\* callback of a recorder that had been asked to stop.
C4_StopThenAssemble ==
  [][/\ \A s \in SessionIds :
          (sessions[s].pc # "stopping" /\ sessions'[s].pc = "stopping")
          => /\ sessions[s].pc = "recording"
             /\ sessions[s].rstate = "recording"
             /\ (sessions[s].elapsed + 100) * 24000 >= sessions[s].frames * 1000
     /\ (finalVideoUrl' # finalVideoUrl /\ finalVideoUrl' # NoUrl)
          => \E s \in SessionIds :
               /\ sessions[s].pc = "stopping"
               /\ sessions'[s].pc = "complete"
               /\ finalVideoUrl'.session = s
     /\ (genState'.status = "complete" /\ genState.status # "complete")
          => \E s \in SessionIds :
               sessions[s].pc = "stopping" /\ sessions'[s].pc = "complete"]_vars

\* C4 witness: a recorder was stopped and its artifact is exposed.
C4_Witness ==
  /\ genState.status = "complete"
  /\ finalVideoUrl # NoUrl
  /\ sessions[finalVideoUrl.session].pc = "complete"

\* C5: under fair ticks and recorder callbacks every started recorder
\* leads to the status complete with the artifact of that recorder exposed.
C5_Completes ==
  \A s \in SessionIds :
    (sessions[s].pc = "recording")
      ~> ( /\ sessions[s].pc = "complete"
           /\ genState.status = "complete"
           /\ finalVideoUrl.session = s )

\* C5 witness: a recorder of a 150 ms narration (not a multiple of the poll
\* interval) is running while a fetch started by the user is in flight.
C5_Witness ==
  \E s \in SessionIds :
    /\ sessions[s].pc = "recording"
    /\ sessions[s].frames = 3600
    /\ \E f \in FetchIds : fetches[f].pc = "hadith"

SessionSteps ==
  { << "none", "tts" >>, << "tts", "recording" >>, << "tts", "failed" >>,
    << "recording", "stopping" >>, << "stopping", "complete" >> }

C7_FailureExposesNothing ==
  [][\A s \in SessionIds :
       FailsNow(s) => /\ genState'.status = "error"
                      /\ genState'.message = "Error"
                      /\ finalVideoUrl' = NoUrl]_vars

\* C8: when a call of generateFullVideo fails, an artifact that was exposed
\* when the call was made is still exposed.
C8_PriorArtifactKept ==
  [][\A s \in SessionIds :
       (FailsNow(s) /\ sessions[s].prior # NoUrl)
         => finalVideoUrl' = sessions[s].prior]_vars

\* C9: in a state left by a failed call of generateFullVideo the Produce
\* Short button is enabled.
C9_RetryEnabled ==
  (genState.status = "error" /\ genState.message = "Error") => ProduceEnabled

\* C10: after a call of generateFullVideo has failed, only a user action
\* moves the status away from error, and only a user action makes a new
\* call of generateFullVideo.
C10_ErrorIsTerminal ==
  [][/\ ( /\ genState.status = "error"
          /\ genState.message = "Error"
          /\ genState'.status # "error" ) => UserStep
     /\ (\E s \in SessionIds : sessions[s].pc = "none" /\ sessions'[s].pc # "none")
          => UserStep]_vars

\* C11: the teardown of the component stops every recording in flight and
\* discards its segments, and after the teardown no tick of a progress
\* interval, no retry timer and no recorder callback changes anything: no
\* call moves on, no segment is kept, no artifact is assembled.
C11_TeardownCancels ==
  [][/\ (phase = "mounted" /\ phase' = "unmounted")
          => \A s \in SessionIds :
               /\ sessions'[s].pc \notin {"recording", "stopping", "stalled"}
               /\ sessions'[s].chunks = << >>
     /\ phase = "unmounted"
          => /\ \A s \in SessionIds :
                  sessions[s].pc # "tts" => sessions'[s] = sessions[s]
             /\ \A f \in FetchIds :
                  fetches[f].pc = "timer" => fetches'[f] = fetches[f]]_vars

\* The step is a firing of the progress interval of call s.
TickOf(s) ==
  /\ sessions[s].pc = "recording"
  /\ \/ sessions'[s].elapsed # sessions[s].elapsed
     \/ sessions'[s].pc # "recording"

\* C12: a tick at elapsed time e of a narration of duration d sets the
\* progress to the integer p with p <= min(40 + 60 * e / d, 99) < p + 1,
\* where e counts the poll intervals since the recorder was started; the
\* value of the formula is 40 at e = 0 and 99 at e = d and lies in 40..99;
\* a tick changes nothing else of genState; the progress becomes 100 only
\* in the stop callback of a recorder.  (e / d = x / y below.)
C12_TickProgress ==
  [][/\ \A s \in SessionIds :
          TickOf(s) =>
            LET e == sessions[s].elapsed + 100
                x == e * 24000
                y == sessions[s].frames * 1000
                p == genState'.progress
            IN  /\ p \in 40..99
                /\ p < 99 => ((p - 40) * y <= 60 * x /\ 60 * x < (p - 39) * y)
                /\ p = 99 => 60 * x >= 59 * y
                /\ x = y => p = 99
                /\ genState'.status = genState.status
                /\ genState'.message = genState.message
     /\ \A s \in SessionIds :
          (sessions[s].pc = "tts" /\ sessions'[s].pc = "recording")
            => sessions'[s].elapsed = 0 /\ genState'.progress = 40
     /\ (genState'.progress = 100 /\ genState.progress # 100)
          => \E s \in SessionIds :
               sessions[s].pc = "stopping" /\ sessions'[s].pc = "complete"]_vars

\* C12 witness: the first tick of a 150 ms narration has set the progress
\* to 80 = floor(40 + 100 / 150 * 60).
C12_Witness ==
  \E s \in SessionIds :
    /\ sessions[s].pc = "recording"
    /\ sessions[s].frames = 3600
    /\ sessions[s].elapsed = 100
    /\ genState = GenerationState("generating_video", 80, "Crafting")

\* C13: while the preview is mounted exactly one draw callback is
\* requested, the one whose handle requestRef holds; once the preview is
\* torn down (unmounted, or unmounted by React after an error) none is.
C13_OneCallbackPending ==
  /\ preview.phase = "mounted"
       => /\ Cardinality(callbacks) = 1
          /\ \A f \in callbacks : f.handle = preview.requestRef /\ f.props = preview.props
  /\ preview.phase \in {"unmounted", "crashed"} => callbacks = {}

\* C13 witness: the loop runs during a recording, after the props have
\* changed and frames have been drawn.
C13_Witness ==
  /\ preview.phase = "mounted"
  /\ preview.props.isGenerating
  /\ preview.props.hadith # Null
  /\ preview.drawn.background = "video"
  /\ preview.requestRef = MaxHandles

\* C14: no execution of render raises an error, whatever the content and
\* the background are.
C14_DrawNeverRaises == ~preview.drawn.raised /\ preview.phase # "crashed"

\* Positions of the preference list that the platform supports.
SupportedAt == {i \in 1..Len(MimeTypes) : MimeTypes[i] \in supportedTypes}

\* C15: a recorder is started only with the container type at the least
\* supported position of the preference list; on a platform that supports
\* no entry of the list the call fails when the narration arrives: the
\* status becomes error and no recorder exists.
C15_EarliestSupported ==
  [][\A s \in SessionIds :
       (sessions[s].pc = "tts" /\ sessions'[s].pc # "tts")
         => /\ sessions'[s].pc = "recording"
                 => \E i \in SupportedAt :
                      /\ sessions'[s].mime = MimeTypes[i]
                      /\ \A j \in SupportedAt : i <= j
            /\ SupportedAt = {}
                 => /\ sessions'[s].pc = "failed"
                    /\ sessions'[s].rstate = "inactive"
                    /\ genState'.status = "error"
                    /\ finalVideoUrl' = finalVideoUrl]_vars

\* C15 witness: on a platform that supports only the last entry of the
\* list, and types that are not on the list, the recorder runs with it.
C15_Witness ==
  /\ supportedTypes = {"video/mp4", "video/x-matroska", "audio/webm"}
  /\ sessions[1].pc = "recording"
  /\ sessions[1].mime = "video/mp4"

\* The segments of call s that the recorder emitted with data, in the
\* order of emission.
NonEmptySegments(s, sizes) ==
  LET kept == SelectSeq([k \in 1..Len(sizes) |-> k], LAMBDA k : sizes[k] > 0)
  IN  [i \in 1..Len(kept) |-> Segment(s, kept[i])]

C17_DecodedSamples ==
  LET data == input.data
      ch == input.numChannels
  IN  ( /\ output # NoResult
        /\ ch >= 1
        /\ Len(data) % 2 = 0
        /\ Len(data) >= 2 * ch )
        => /\ output.kind = "buffer"
           /\ output.numberOfChannels = ch
           /\ output.length = (Len(data) \div 2) \div ch
           /\ DOMAIN output.channels = 0..(ch - 1)
           /\ \A c \in 0..(ch - 1) :
                /\ DOMAIN output.channels[c] = 0..(output.length - 1)
                /\ \A i \in 0..(output.length - 1) :
                     LET k == i * ch + c
                         sample == output.channels[c][i]
                     IN  /\ sample.den = 32768
                         /\ sample.num \in -32768..32767
                         /\ (sample.num - (data[2 * k + 1] + 256 * data[2 * k + 2])) % 65536 = 0
                         /\ -sample.den <= sample.num /\ sample.num < sample.den

\* C17 witness: three samples decoded for two channels (the third is a
\* partial frame), the first of them -1.
C17_Witness ==
  /\ output # NoResult
  /\ output.kind = "buffer"
  /\ input.numChannels = 2
  /\ Len(input.data) = 6
  /\ output.length = 1
  /\ output.channels[0][0] = [num |-> -32768, den |-> 32768]

\* The input has an odd number of bytes, no channel, or less than one frame.
Undecodable ==
  \/ Len(input.data) % 2 = 1
  \/ input.numChannels <= 0
  \/ Len(input.data) \div 2 < input.numChannels

\* C18: decodeRawPcm fails, returning no buffer, when the byte length is
\* odd, numChannels <= 0 or there is less than one frame; when the decode
\* of generateFullVideo fails the call fails: the status becomes error and
\* no recorder is started.
C18_DecodeFails ==
  [][/\ (output = NoResult /\ output' # NoResult /\ Undecodable)
          => output'.kind = "error"
     /\ (output.kind = "error" /\ sessions[1].pc = "tts" /\ sessions'[1].pc # "tts")
          => /\ sessions'[1].pc = "failed"
             /\ sessions'[1].rstate = "inactive"
             /\ genState'.status = "error"
             /\ finalVideoUrl' = NoUrl]_vars

\* C18 witness: the decode of a payload of five bytes has failed and the
\* call of generateFullVideo has ended in the status error.
C18_Witness ==
  /\ Len(input.data) = 5
  /\ output.kind = "error"
  /\ sessions[1].pc = "failed"
  /\ genState.status = "error"

\* The test DecodeOk and the count FrameCount of the App's model agree with
\* decodeRawPcm called with one channel.
DecodeOkAgrees ==
  (output # NoResult /\ input.numChannels = NumChannels)
    => /\ DecodeOk(Len(input.data), NumChannels) <=> output.kind = "buffer"
       /\ output.kind = "buffer" => output.length = FrameCount(Len(input.data), NumChannels)

\* The line has a space in it: it was joined from several words.
Joined(line) == \E i \in 1..Len(line) : line[i] = " "

\* C19: a line returned by wrapText that measures more than maxWidth is a
\* single word (it has no space in it).
C19_LinesFit ==
  output # NoResult
    => \A k \in 1..Len(output.lines) :
         \/ measureText(input.metrics, output.lines[k]) <= input.maxWidth
         \/ ~Joined(output.lines[k])

\* C19 witness: wrapText has returned a word wider than maxWidth on a
\* line of its own and, on another line, two words that fit together.
C19_Witness ==
  /\ output # NoResult
  /\ \E k \in 1..Len(output.lines) :
       measureText(input.metrics, output.lines[k]) > input.maxWidth
  /\ \E k \in 1..Len(output.lines) :
       /\ Joined(output.lines[k])
       /\ measureText(input.metrics, output.lines[k]) = input.maxWidth - 1

\* What follows the last space of the text (the whole text if it has none).
LastWord(text) ==
  LET spaces == {i \in 1..Len(text) : text[i] = " "}
      from == IF spaces = {} THEN 1 ELSE (CHOOSE i \in spaces : \A j \in spaces : j <= i) + 1
  IN  SubSeq(text, from, Len(text))

\* C20: wrapText returns at least one line, its last line ends with the
\* last word of the text, and for the empty text it returns one empty
\* line, whatever maxWidth and the metrics are.
C20_LastLineEmitted ==
  output # NoResult
    => LET lines == output.lines
           last == lines[Len(lines)]
           word == LastWord(input.text)
       IN  /\ Len(lines) >= 1
           /\ Len(last) >= Len(word)
           /\ SubSeq(last, Len(last) - Len(word) + 1, Len(last)) = word
           /\ input.text = << >> => lines = << << >> >>

\* C20 witness: wrapText has returned one empty line for the empty text.
C20_Witness ==
  /\ output # NoResult
  /\ input.fn = "wrapText"
  /\ input.text = << >>
  /\ input.maxWidth = 0
  /\ output.lines = << << >> >>

\* C21: the font sizes depend only on n = length of the Arabic text +
\* length of the translation, whatever includeArabic is: (42, 32) for
\* n > 800, (52, 40) for 500 < n <= 800, (64, 48) for n <= 500.
C21_FontLadder ==
  output # NoResult
    => LET n == input.arabicLength + input.englishLength
           pair == << output.sizes.baseArabicSize, output.sizes.baseEnglishSize >>
       IN  /\ n > 800 => pair = << 42, 32 >>
           /\ (500 < n /\ n <= 800) => pair = << 52, 40 >>
           /\ n <= 500 => pair = << 64, 48 >>
           /\ n \in {799, 800} => pair = << 52, 40 >>
           /\ n = 801 => pair = << 42, 32 >>
           /\ n = 500 => pair = << 64, 48 >>

\* C21 witness: with includeArabic off, 400 Arabic characters and 400 of
\* translation (n = 800) have given the medium pair.
C21_Witness ==
  /\ output # NoResult
  /\ input.fn = "fontSizes"
  /\ ~input.includeArabic
  /\ input.arabicLength = 400
  /\ input.englishLength = 400
  /\ output.sizes = [baseArabicSize |-> 52, baseEnglishSize |-> 40]

\* Comparisons of fractions with positive denominators.
FracEq(a, b) == a.num * b.den = b.num * a.den

FracLeq(a, b) == a.num * b.den <= b.num * a.den

\* (surface - draw) / 2
Centred(surface, draw) == Frac(surface * draw.den - draw.num, 2 * draw.den)

\* C22: for a video of positive width and height the draw rectangle has
\* the aspect ratio of the video, is at least as wide and as high as the
\* 1080 x 1920 canvas, has on one axis the size of the canvas and offset
\* 0, and on each axis the offset (surface - draw) / 2 <= 0; for a 16:9
\* video the draw width exceeds 1080 and the vertical offset is 0.
C22_CoverFit ==
  output # NoResult
    => LET r == output.rect
           vw == input.videoWidth
           vh == input.videoHeight
       IN  /\ r.drawW.den > 0 /\ r.drawH.den > 0 /\ r.drawX.den > 0 /\ r.drawY.den > 0
           /\ r.drawW.num * r.drawH.den * vh = r.drawH.num * r.drawW.den * vw
           /\ FracLeq(Frac(1080, 1), r.drawW)
           /\ FracLeq(Frac(1920, 1), r.drawH)
           /\ \/ FracEq(r.drawW, Frac(1080, 1)) /\ r.drawX.num = 0
              \/ FracEq(r.drawH, Frac(1920, 1)) /\ r.drawY.num = 0
           /\ FracEq(r.drawX, Centred(1080, r.drawW))
           /\ FracEq(r.drawY, Centred(1920, r.drawH))
           /\ r.drawX.num <= 0 /\ r.drawY.num <= 0
           /\ vw * 9 = vh * 16
                => r.drawW.num > 1080 * r.drawW.den /\ r.drawY.num = 0

\* C22 witness: a 16:9 video was fitted: the height is that of the canvas
\* and the rectangle is wider than the canvas, centred.
C22_Witness ==
  /\ output # NoResult
  /\ input.fn = "coverFit"
  /\ input.videoWidth = 16
  /\ input.videoHeight = 9
  /\ output.rect.drawH = Frac(1920, 1)
  /\ output.rect.drawW = Frac(1920 * 16, 9)
  /\ output.rect.drawX.num < 0

\* C23: the progress is 100 exactly when the status is complete, 0 when
\* the status is idle or error, and in 40..99 only when the status is
\* generating_video.
C23_ProgressMatchesStatus ==
  /\ genState.progress = 100 <=> genState.status = "complete"
  /\ genState.status \in {"idle", "error"} => genState.progress = 0
  /\ genState.progress \in 40..99 => genState.status = "generating_video"

\* C24: a recording during which fetchHadith has run exposes no artifact.
\* The recorder's start writes the status generating_video, so a status
\* fetching_hadith found when the stop callback runs was written by
\* fetchHadith while that recording was in flight; the stop callback then
\* leaves finalVideoUrl null.
C24_StaleRecordingHidden ==
  [][\A s \in SessionIds :
       ( /\ sessions[s].pc = "stopping"
         /\ sessions'[s].pc = "complete"
         /\ genState.status = "fetching_hadith" )
       => finalVideoUrl' = NoUrl]_vars

\* C25: whenever the status is complete, finalVideoUrl is not null.
C25_CompleteHasUrl == genState.status = "complete" => finalVideoUrl # NoUrl

\* C25 witness: a recorder stopped after fetchHadith had cleared the URL, so
\* the status is complete and an artifact is exposed while the fetch is pending.
C25_Witness ==
  /\ genState.status = "complete"
  /\ finalVideoUrl # NoUrl
  /\ \E f \in FetchIds : fetches[f].pc \in {"hadith", "video"}

\* Every call of fetchHadith has settled: no request is awaited and no retry
\* timer is armed.
Settled == \A f \in FetchIds : fetches[f].pc \in {"none", "done"}

\* C26: once all overlapping calls of fetchHadith have settled (and no
\* recording was ever started, so that only fetches write the status), the
\* content and the background are those returned for the selected category
\* and the status is idle.
C26_LatestCategoryWins ==
  ( /\ phase = "mounted"
    /\ Settled
    /\ \A s \in SessionIds : sessions[s].pc = "none" )
  => /\ hadith = settings.category
     /\ backgroundVideo \in {settings.category, ""}
     /\ genState.status = "idle"

\* lines.join(' ')
RECURSIVE JoinLines(_)
JoinLines(lines) ==
  IF lines = << >> THEN << >>
  ELSE IF Len(lines) = 1 THEN lines[1]
  ELSE lines[1] \o << " " >> \o JoinLines(Tail(lines))

\* The words of all the lines, line after line.
RECURSIVE WordsOf(_)
WordsOf(lines) ==
  IF lines = << >> THEN << >> ELSE split(lines[1]) \o WordsOf(Tail(lines))

\* C27: the lines returned by wrapText, joined with a single space, are the
\* input text, and the words of the lines are the words of the text, once
\* each and in the same order (no word is split across lines).
C27_WrapLosesNothing ==
  output # NoResult
    => /\ JoinLines(output.lines) = input.text
       /\ WordsOf(output.lines) = split(input.text)

\* C27 witness: wrapText has broken a text with an empty piece (a leading,
\* trailing or doubled space) into several lines, one of them joined from
\* several pieces.
C27_Witness ==
  /\ output # NoResult
  /\ input.fn = "wrapText"
  /\ Len(output.lines) >= 2
  /\ \E k \in 1..Len(output.lines) : Joined(output.lines[k])
  /\ \E i \in 1..Len(split(input.text)) : split(input.text)[i] = << >>

\* The tables are large enough: no user action is ever refused for want
\* of a free entry.
TablesSuffice ==
  (phase = "mounted" /\ Clicks < MaxClicks)
    => /\ FreeFetch # {}
       /\ ProduceEnabled => FreeSession # {}

====
